---- MODULE Spec2Model ----
(***************************************************************************)
(* The schedule manager of keylock (src/scheduler.py): the schedule table, *)
(* the per-schedule threading.Timer objects, the background scheduler      *)
(* thread that loads and arms the persisted schedules, and the persisted   *)
(* file.  Time is counted in whole seconds from a Monday 00:00:00.         *)
(***************************************************************************)
EXTENDS Integers, FiniteSets, Sequences, TLC

\* ------------------------------------------------------------------ bounds
MaxIds == 2
MaxTimers == 3
MaxOps == 3
MaxTicks == 3

\* ------------------------------------------------------- program constants
SecondsPerDay == 86400
DaysPerWeek == 7
None == 0

\* ------------------------------------------------------------ input values
InitDay == 4
AnchorTod == 43200
CountdownSecs == 5
ShortDuration == 10
LongDuration == 90000

NoDuration == 0 - 1
Stale == 0 - 1

Ids == 1..MaxIds
Handles == 1..MaxTimers

\* ------------------------------------------------------- datetime helpers
DateOf(n) == n \div SecondsPerDay
TimeOf(n) == n % SecondsPerDay
Weekday(n) == DateOf(n) % DaysPerWeek
Combine(date, tod) == date * SecondsPerDay + tod

MinOf(S) == CHOOSE x \in S : \A y \in S : x <= y
\* sorted(schedule.days) as a sequence
RECURSIVE SortedDays(_)
SortedDays(S) == IF S = {} THEN << >> ELSE <<MinOf(S)>> \o SortedDays(S \ {MinOf(S)})

InitNow == Combine(InitDay, AnchorTod) - 2
OnceAt == Combine(InitDay, AnchorTod)

VARIABLES
    now,          \* datetime.datetime.now(), in whole seconds
    schedules,    \* self.schedules: id -> Schedule object (its fields)
    timers,       \* the live threading.Timer threads: handle -> timer
    file,         \* keylock_schedules.json: << >> when absent, else <<dict>>
    running,      \* self.running
    loader,       \* the scheduler thread: its position and locals
    lockHolder,   \* the timer thread that holds self.lock, or None
    orphan,       \* the lock holder's Schedule object once the table no longer holds it
    stopped,      \* history: stop() has returned and nothing was started or armed since
    removed,      \* history: ids whose last successful table operation is remove_schedule
    missed,       \* history: ids whose 'once' schedule _schedule_next_run found past and disabled
    devices,      \* the host's core.keyboard_locked and core.mouse_locked
    ops,          \* number of API calls made
    ticks         \* number of clock advances made

vars == <<now, schedules, timers, file, running, loader, lockHolder, orphan,
          stopped, removed, missed, devices, ops, ticks>>

\* ---------------------------------------------------------------- Schedule
\* Schedule.__init__: the fields of a new Schedule object; both timer handles None.
NewSchedule(name, action, time_type, start_time, days, duration, enabled) ==
    [name |-> name, action |-> action, time_type |-> time_type, start_time |-> start_time,
     days |-> days, duration |-> duration, enabled |-> enabled,
     timer |-> None, unlock_timer |-> None]

TimeAnchor(tod) == [tag |-> "time", v |-> tod]
DateTimeAnchor(t) == [tag |-> "datetime", v |-> t]
IntAnchor(n) == [tag |-> "int", v |-> n]

\* Schedule.to_dict: the start_time entry, formatted by strftime.
FormatStart(s) ==
    IF s.time_type = "countdown"
    THEN [fmt |-> "int", f |-> <<s.start_time.v>>]
    ELSE IF s.start_time.tag = "time"
    THEN [fmt |-> "hms",
          f |-> <<s.start_time.v \div 3600, (s.start_time.v % 3600) \div 60,
                  s.start_time.v % 60>>]
    ELSE IF s.start_time.tag = "datetime"
    THEN [fmt |-> "ymdhms",
          f |-> <<DateOf(s.start_time.v), TimeOf(s.start_time.v) \div 3600,
                  (TimeOf(s.start_time.v) % 3600) \div 60, TimeOf(s.start_time.v) % 60>>]
    ELSE [fmt |-> "missing", f |-> << >>]

\* Schedule.to_dict
ToDict(s) ==
    [name |-> s.name, action |-> s.action, time_type |-> s.time_type, enabled |-> s.enabled,
     start_time |-> FormatStart(s), days |-> s.days, duration |-> s.duration]

\* Schedule.from_dict: whether int() / strptime accept the start_time entry.
FromDictOk(d) ==
    IF d.time_type = "countdown" THEN d.start_time.fmt = "int"
    ELSE IF d.time_type = "once" THEN d.start_time.fmt = "ymdhms"
    ELSE d.start_time.fmt = "hms"

\* ParseStart with the seconds field of the text ignored
ParseStartNoSeconds(d) ==
    IF d.time_type = "countdown" THEN IntAnchor(d.start_time.f[1])
    ELSE IF d.time_type = "once"
    THEN DateTimeAnchor(Combine(d.start_time.f[1],
             d.start_time.f[2] * 3600 + d.start_time.f[3] * 60))
    ELSE TimeAnchor(d.start_time.f[1] * 3600 + d.start_time.f[2] * 60)

\* Schedule.from_dict: the parsed start_time.
ParseStart(d) ==
    IF d.time_type = "countdown" THEN IntAnchor(d.start_time.f[1])
    ELSE IF d.time_type = "once"
    THEN DateTimeAnchor(Combine(d.start_time.f[1],
             d.start_time.f[2] * 3600 + d.start_time.f[3] * 60 + d.start_time.f[4]))
    ELSE TimeAnchor(d.start_time.f[1] * 3600 + d.start_time.f[2] * 60 + d.start_time.f[3])

\* Schedule.from_dict
FromDict(d) ==
    NewSchedule(d.name, d.action, d.time_type, ParseStart(d), d.days, d.duration, d.enabled)

\* ------------------------------------------------- next-occurrence calculator
\* DailySeconds without the roll-over to tomorrow
DailySecondsToday(tod, n) == Combine(DateOf(n), tod) - n

\* _schedule_next_run, the 'daily' branch.
DailySeconds(tod, n) ==
    IF Combine(DateOf(n), tod) > n
    THEN Combine(DateOf(n), tod) - n
    ELSE Combine(DateOf(n + SecondsPerDay), tod) - n

\* WeekdaysAhead without the jump from Friday to Monday
WeekdaysAheadNextDay(tod, n) ==
    IF Weekday(n) < 5
    THEN IF Combine(DateOf(n), tod) > n THEN 0 ELSE 1
    ELSE 7 - Weekday(n) + 0

\* _schedule_next_run, the 'weekdays' branch: days_ahead.
WeekdaysAhead(tod, n) ==
    IF Weekday(n) < 5
    THEN IF Combine(DateOf(n), tod) > n THEN 0
         ELSE IF Weekday(n) = 4 THEN 3 ELSE 1
    ELSE 7 - Weekday(n) + 0

\* _schedule_next_run, the 'weekends' branch: days_ahead.
WeekendsAhead(tod, n) ==
    IF Weekday(n) >= 5
    THEN IF Combine(DateOf(n), tod) > n THEN 0
         ELSE IF Weekday(n) = 5 THEN 1 ELSE 6
    ELSE 5 - Weekday(n)

\* seconds_until_next from days_ahead, for 'weekdays' and 'weekends'.
AheadSeconds(ahead, tod, n) ==
    IF ahead > 0
    THEN Combine(DateOf(n + ahead * SecondsPerDay), tod) - n
    ELSE Combine(DateOf(n), tod) - n

\* WeeklyAhead with today counted among the candidate days
WeeklyAheadFromToday(days, tod, n) ==
    LET later == {d \in days : d >= Weekday(n)}
    IN  IF later # {} THEN MinOf(later) - Weekday(n)
        ELSE 7 - Weekday(n) + MinOf(days)

\* _schedule_next_run, the 'weekly' branch: days_ahead (days is not empty).
WeeklyAhead(days, tod, n) ==
    LET sorted == SortedDays(days)
        later == {d \in days : d > Weekday(n)}
        first == IF later # {} THEN MinOf(later) - Weekday(n)
                 ELSE 7 - Weekday(n) + sorted[1]
    IN  IF first = 0
        THEN IF Combine(DateOf(n), tod) > n THEN 0
             ELSE IF Len(sorted) > 1 THEN sorted[2] - Weekday(n) ELSE 7
        ELSE first

\* _schedule_next_run, the 'weekly' branch: seconds_until_next.
WeeklySeconds(days, tod, n) ==
    IF WeeklyAhead(days, tod, n) = 0 /\ Combine(DateOf(n), tod) > n
    THEN Combine(DateOf(n), tod) - n
    ELSE Combine(DateOf(n + WeeklyAhead(days, tod, n) * SecondsPerDay), tod) - n

\* CountdownSeconds with the time since the manager was created taken off
CountdownSecondsLeft(s, n) == s.start_time.v - (n - InitNow)

\* _schedule_next_run, the 'countdown' branch: seconds_until_next
CountdownSeconds(s, n) == s.start_time.v

\* _schedule_next_run: seconds_until_next when the timer is about to be
\* scheduled (0 when no branch set it).
SecondsUntilNext(s, n) ==
    IF s.time_type = "countdown" THEN CountdownSeconds(s, n)
    ELSE IF s.time_type = "once"
    THEN IF s.start_time.tag = "datetime" /\ s.start_time.v > n
         THEN s.start_time.v - n ELSE 0
    ELSE IF s.start_time.tag # "time" THEN 0
    ELSE IF s.time_type = "daily" THEN DailySeconds(s.start_time.v, n)
    ELSE IF s.time_type = "weekdays"
    THEN AheadSeconds(WeekdaysAhead(s.start_time.v, n), s.start_time.v, n)
    ELSE IF s.time_type = "weekends"
    THEN AheadSeconds(WeekendsAhead(s.start_time.v, n), s.start_time.v, n)
    ELSE IF s.time_type = "weekly" /\ s.days # {}
    THEN WeeklySeconds(s.days, s.start_time.v, n)
    ELSE 0

\* DisabledByArm with a 'once' schedule due exactly now still taken as ahead
DisabledByArmBefore(s, n) ==
    /\ s.enabled
    /\ s.time_type = "once"
    /\ s.start_time.tag = "datetime"
    /\ s.start_time.v < n

\* _schedule_next_run: a 'once' schedule whose start_time has passed is disabled.
DisabledByArm(s, n) ==
    /\ s.enabled
    /\ s.time_type = "once"
    /\ s.start_time.tag = "datetime"
    /\ ~(s.start_time.v > n)

\* _schedule_next_run: whether a timer is started.
StartsTimer(s, n) == s.enabled /\ ~DisabledByArm(s, n) /\ SecondsUntilNext(s, n) > 0

\* _schedule_next_run: the Schedule object afterwards, h being the new Timer.
AfterArm(s, n, h) ==
    IF ~s.enabled THEN s
    ELSE IF DisabledByArm(s, n) THEN [s EXCEPT !.enabled = FALSE]
    ELSE IF SecondsUntilNext(s, n) > 0 THEN [s EXCEPT !.timer = h]
    ELSE s

\* threading.Timer(seconds, self._execute_schedule / self._execute_unlock, args=[id])
NewTimer(sid, kind, deadline) ==
    [sid |-> sid, kind |-> kind, deadline |-> deadline, st |-> "armed", raises |-> FALSE,
     replaced |-> FALSE]

\* ------------------------------------------------------------ table helpers
EmptyTable == [x \in {} |-> None]
Restrict(f, S) == [x \in S |-> f[x]]

FreeHandles(tm) == Handles \ DOMAIN tm
\* the handle the next threading.Timer object gets (the smallest unused one)
NextHandle(tm) == IF FreeHandles(tm) = {} THEN None ELSE MinOf(FreeHandles(tm))

\* threading.Timer.cancel(): stops a timer that has not yet elapsed; a no-op on
\* None, on a finished timer and on one whose function has already started.
Cancel(tm, h) ==
    IF h \in DOMAIN tm /\ tm[h].st = "armed" THEN Restrict(tm, DOMAIN tm \ {h}) ELSE tm

\* A handle of a Timer that has finished: still a Timer object (truthy), no
\* longer a live thread.
Ref(tm, h) == IF h \in Handles /\ h \notin DOMAIN tm THEN Stale ELSE h
Canon(table, tm) ==
    [sid \in DOMAIN table |->
        [table[sid] EXCEPT !.timer = Ref(tm, @), !.unlock_timer = Ref(tm, @)]]

\* _schedule_next_run(schedule): the timers and the Schedule object afterwards.
CanArm(tm, s, n) == StartsTimer(s, n) => FreeHandles(tm) # {}
ArmTimers(tm, sid, s, n) ==
    IF StartsTimer(s, n)
    THEN (NextHandle(tm) :> NewTimer(sid, "lock", n + SecondsUntilNext(s, n))) @@ tm
    ELSE tm
ArmSchedule(tm, s, n) == AfterArm(s, n, NextHandle(tm))

\* _save_schedules: the file written from the table.
Save(table) == <<[sid \in DOMAIN table |-> ToDict(table[sid])]>>

\* ------------------------------------------------------------------- inputs
Names == {"focus"}
ActionKinds == {"both"}
Definitions ==
    {NewSchedule(nm, a, "countdown", IntAnchor(CountdownSecs), {}, ShortDuration, TRUE) :
        nm \in Names, a \in ActionKinds}
    \cup {NewSchedule(nm, a, "once", DateTimeAnchor(OnceAt), {}, NoDuration, TRUE) :
        nm \in Names, a \in ActionKinds}
    \cup {NewSchedule(nm, a, "daily", TimeAnchor(AnchorTod), {}, LongDuration, TRUE) :
        nm \in Names, a \in ActionKinds}
    \cup {NewSchedule(nm, a, "weekdays", TimeAnchor(AnchorTod), {}, NoDuration, TRUE) :
        nm \in Names, a \in ActionKinds}
    \cup {NewSchedule(nm, a, "weekends", TimeAnchor(AnchorTod), {}, NoDuration, TRUE) :
        nm \in Names, a \in ActionKinds}
    \cup {NewSchedule(nm, a, "weekly", TimeAnchor(AnchorTod), {1, 3}, NoDuration, TRUE) :
        nm \in Names, a \in ActionKinds}
    \cup {NewSchedule(nm, a, "weekly", TimeAnchor(AnchorTod), {}, NoDuration, TRUE) :
        nm \in Names, a \in ActionKinds}

\* the schedules a caller passes for an id (every kind for the first id)
InputsFor(sid) ==
    IF sid = 1 THEN Definitions
    ELSE {x \in Definitions : x.time_type \in {"countdown"}}

\* keylock_schedules.json as a previous run may have left it
InitFiles ==
    {<< >>}
    \cup {Save(1 :> d) : d \in {x \in Definitions : x.time_type \in {"daily", "countdown"}}}

\* core.keyboard_locked = False, core.mouse_locked = False
Unlocked == [keyboard |-> FALSE, mouse |-> FALSE]

NoLoader == [pc |-> "none", pending |-> EmptyTable, visited |-> {}, iterSize |-> 0]

\* ScheduleManager.__init__
Init ==
    /\ now = InitNow
    /\ schedules = EmptyTable
    /\ timers = EmptyTable
    /\ file \in InitFiles
    /\ running = FALSE
    /\ loader = NoLoader
    /\ lockHolder = None
    /\ orphan = << >>
    /\ stopped = FALSE
    /\ removed = {}
    /\ missed = {}
    /\ devices = Unlocked
    /\ ops = 0
    /\ ticks = 0

\* scheduler_thread.is_alive()
LoaderAlive == loader.pc \notin {"none", "ended"}

\* ---------------------------------------------------------------- API calls
\* ScheduleManager.start
Start ==
    /\ ops < MaxOps
    /\ ops' = ops + 1
    /\ IF ~LoaderAlive
       THEN /\ running' = TRUE
            /\ loader' = [NoLoader EXCEPT !.pc = "load"]
            /\ stopped' = FALSE
       ELSE UNCHANGED <<running, loader, stopped>>
    /\ UNCHANGED <<devices, now, schedules, timers, file, lockHolder, orphan, removed, missed, ticks>>

\* _cancel_all_timers: the timers left once every handle of the table is cancelled
RECURSIVE CancelAll(_, _, _)
CancelAll(tm, table, todo) ==
    IF todo = {} THEN tm
    ELSE LET sid == MinOf(todo)
         IN  CancelAll(Cancel(Cancel(tm, table[sid].timer), table[sid].unlock_timer),
                       table, todo \ {sid})

\* ScheduleManager.stop (the join gives up after one second)
Stop ==
    /\ ops < MaxOps
    /\ lockHolder = None
    /\ ops' = ops + 1
    /\ running' = FALSE
    /\ timers' = CancelAll(timers, schedules, DOMAIN schedules)
    /\ schedules' = [sid \in DOMAIN schedules |->
                        [schedules[sid] EXCEPT
                            !.timer = None, !.unlock_timer = None]]
    /\ stopped' = TRUE
    /\ UNCHANGED <<devices, now, file, loader, lockHolder, orphan, removed, missed, ticks>>

\* history: _schedule_next_run(s) for id sid has run at time n
MissedAfter(ms, sid, s, n) == IF DisabledByArm(s, n) THEN ms \cup {sid} ELSE ms

\* AddReturns without the check for an existing id
AddReturnsAlways(sid) == TRUE

\* add_schedule: the value returned (False when the id is already in the table)
AddReturns(sid) == sid \notin DOMAIN schedules

\* _save_schedules: the file afterwards; a failed write (saved = FALSE) is
\* caught and logged and leaves the file as it was
Written(table, saved) == IF saved THEN Save(table) ELSE file

\* _save_schedules with the exception of a failed write passed on to the caller
SaveFailureEscapes == TRUE

\* _save_schedules: whether the exception of a failed write reaches the caller
\* (it is caught by the except clause)
SaveFailureRaised == FALSE

\* the value an API call returns when its checks passed and its save went as
\* 'saved' says
ReturnsAfterSave(saved) == IF ~saved /\ SaveFailureRaised THEN "raised" ELSE "True"

\* ScheduleManager.add_schedule, its _save_schedules succeeding or not
AddScheduleIO(sid, schedule, saved) ==
    /\ ops < MaxOps
    /\ lockHolder = None
    /\ ops' = ops + 1
    /\ IF ~AddReturns(sid)
       THEN UNCHANGED <<schedules, timers, file, stopped, removed, missed>>
       ELSE /\ CanArm(timers, schedule, now)
            /\ timers' = ArmTimers(timers, sid, schedule, now)
            /\ schedules' = (sid :> ArmSchedule(timers, schedule, now)) @@ schedules
            /\ file' = Written(schedules', saved)
            /\ stopped' = FALSE
            /\ removed' = removed \ {sid}
            /\ missed' = MissedAfter(missed \ {sid}, sid, schedule, now)
    /\ UNCHANGED <<devices, now, running, loader, lockHolder, orphan, ticks>>

\* CancelExisting cancelling every armed timer of the manager
CancelExistingAll(tm, existing) == Restrict(tm, {h \in DOMAIN tm : tm[h].st # "armed"})

\* update_schedule / remove_schedule: existing.timer.cancel(), existing.unlock_timer.cancel()
CancelExisting(tm, existing) == Cancel(Cancel(tm, existing.timer), existing.unlock_timer)

\* history: the live timers of sid belong to a definition that has been replaced
MarkReplaced(tm, sid) ==
    [h \in DOMAIN tm |-> IF tm[h].sid = sid THEN [tm[h] EXCEPT !.replaced = TRUE] ELSE tm[h]]

\* ScheduleManager.add_schedule
AddSchedule(sid, schedule) == AddScheduleIO(sid, schedule, TRUE)

\* update_schedule: the value returned (False when the id is not in the table)
UpdateReturns(sid) == sid \in DOMAIN schedules

\* ScheduleManager.update_schedule, its _save_schedules succeeding or not
UpdateScheduleIO(sid, schedule, saved) ==
    /\ ops < MaxOps
    /\ lockHolder = None
    /\ ops' = ops + 1
    /\ IF ~UpdateReturns(sid)
       THEN UNCHANGED <<schedules, timers, file, stopped, missed>>
       ELSE LET tm == MarkReplaced(CancelExisting(timers, schedules[sid]), sid)
            IN  /\ CanArm(tm, schedule, now)
                /\ timers' = ArmTimers(tm, sid, schedule, now)
                /\ schedules' = [schedules EXCEPT ![sid] = ArmSchedule(tm, schedule, now)]
                /\ file' = Written(schedules', saved)
                /\ stopped' = FALSE
                /\ missed' = MissedAfter(missed \ {sid}, sid, schedule, now)
    /\ UNCHANGED <<devices, now, running, loader, lockHolder, orphan, removed, ticks>>

\* ScheduleManager.update_schedule
UpdateSchedule(sid, schedule) == UpdateScheduleIO(sid, schedule, TRUE)

\* remove_schedule: the value returned (False when the id is not in the table)
RemoveReturns(sid) == sid \in DOMAIN schedules

\* ScheduleManager.remove_schedule, its _save_schedules succeeding or not
RemoveScheduleIO(sid, saved) ==
    /\ ops < MaxOps
    /\ lockHolder = None
    /\ ops' = ops + 1
    /\ IF ~RemoveReturns(sid)
       THEN UNCHANGED <<schedules, timers, file, removed, missed>>
       ELSE /\ timers' = CancelExisting(timers, schedules[sid])
            /\ schedules' = Restrict(schedules, DOMAIN schedules \ {sid})
            /\ file' = Written(schedules', saved)
            /\ removed' = removed \cup {sid}
            /\ missed' = missed \ {sid}
    /\ UNCHANGED <<devices, now, running, loader, lockHolder, orphan, stopped, ticks>>

\* ScheduleManager.remove_schedule
RemoveSchedule(sid) == RemoveScheduleIO(sid, TRUE)

\* --------------------------------------------------------- scheduler thread
\* _load_schedules: os.path.exists and json.load
LoaderRead ==
    /\ loader.pc = "load"
    /\ loader' = IF file = << >>
                 THEN [loader EXCEPT !.pc = "arm", !.visited = {},
                                     !.iterSize = Cardinality(DOMAIN schedules)]
                 ELSE [loader EXCEPT !.pc = "insert", !.pending = file[1]]
    /\ UNCHANGED <<devices, now, schedules, timers, file, running, lockHolder, orphan,
                   stopped, removed, missed, ops, ticks>>

\* the Schedule object the lock holder works on
HeldSid == IF lockHolder = None THEN None ELSE timers[lockHolder].sid

\* _load_schedules: one turn of the loop over schedules_data.items(); a record
\* that from_dict rejects ends the whole load.
LoaderInsert ==
    /\ loader.pc = "insert"
    /\ IF loader.pending = EmptyTable
       THEN /\ loader' = [loader EXCEPT !.pc = "arm", !.visited = {},
                                        !.iterSize = Cardinality(DOMAIN schedules)]
            /\ UNCHANGED <<schedules, orphan>>
       ELSE \E sid \in DOMAIN loader.pending :
              IF FromDictOk(loader.pending[sid])
              THEN /\ schedules' = (sid :> FromDict(loader.pending[sid])) @@ schedules
                   /\ orphan' = IF HeldSid = sid /\ orphan = << >>
                                THEN <<schedules[sid]>> ELSE orphan
                   /\ loader' = [loader EXCEPT
                                    !.pending = Restrict(@, DOMAIN @ \ {sid})]
              ELSE /\ loader' = [loader EXCEPT !.pending = EmptyTable]
                   /\ UNCHANGED <<schedules, orphan>>
    /\ UNCHANGED <<devices, now, timers, file, running, lockHolder, stopped, removed, missed, ops, ticks>>

\* _scheduler_loop: one turn of the loop over self.schedules.values(); the dict
\* iterator raises RuntimeError when the dict changed size, which ends the thread.
LoaderArm ==
    /\ loader.pc = "arm"
    /\ IF Cardinality(DOMAIN schedules) # loader.iterSize
       THEN /\ loader' = [loader EXCEPT !.pc = "ended"]
            /\ UNCHANGED <<schedules, timers, missed>>
       ELSE IF DOMAIN schedules \ loader.visited = {}
       THEN /\ loader' = [loader EXCEPT !.pc = "sleep"]
            /\ UNCHANGED <<schedules, timers, missed>>
       ELSE \E sid \in DOMAIN schedules \ loader.visited :
              /\ CanArm(timers, schedules[sid], now)
              /\ timers' = ArmTimers(timers, sid, schedules[sid], now)
              /\ schedules' = [schedules EXCEPT
                                  ![sid] = ArmSchedule(timers, schedules[sid], now)]
              /\ loader' = [loader EXCEPT !.visited = @ \cup {sid}]
              /\ missed' = MissedAfter(missed, sid, schedules[sid], now)
    /\ UNCHANGED <<devices, now, file, running, lockHolder, orphan, stopped, removed, ops, ticks>>

\* _scheduler_loop: while self.running: time.sleep(1)
LoaderExit ==
    /\ loader.pc = "sleep"
    /\ ~running
    /\ loader' = [loader EXCEPT !.pc = "ended"]
    /\ UNCHANGED <<devices, now, schedules, timers, file, running, lockHolder, orphan,
                   stopped, removed, missed, ops, ticks>>

\* ------------------------------------------------------------ timer threads
\* threading.Timer.run: the interval has passed, the function is called
Elapse(t) ==
    /\ t \in DOMAIN timers
    /\ timers[t].st = "armed"
    /\ timers[t].deadline <= now
    /\ timers' = [timers EXCEPT ![t].st = "elapsed"]
    /\ UNCHANGED <<devices, now, schedules, file, running, loader, lockHolder, orphan,
                   stopped, removed, missed, ops, ticks>>

\* HolderDuringCallback with the lock released before the callback is called
HolderReleased(t) == None

\* the thread that holds self.lock while the callback of timer t runs
HolderDuringCallback(t) == t

\* the thread of timer t has finished
Finished(tm, t) == Restrict(tm, DOMAIN tm \ {t})

\* ExecSkips without the check of schedule.enabled
ExecSkipsMissingOnly(t) == timers[t].sid \notin DOMAIN schedules

\* _execute_schedule: the id is no longer in the table, or the schedule is
\* disabled: the call returns at once
ExecSkips(t) ==
    timers[t].sid \notin DOMAIN schedules \/ ~schedules[timers[t].sid].enabled

\* _execute_schedule up to the call of lock_callback: the lock is taken, a
\* missing or disabled schedule ends the call; otherwise lock_callback is called
\* and will return (ok) or raise (~ok), leaving the host's devices as 'locked'.
ExecBeginWith(t, ok, locked) ==
    /\ t \in DOMAIN timers
    /\ timers[t].kind = "lock"
    /\ timers[t].st = "elapsed"
    /\ lockHolder = None
    /\ IF ExecSkips(t)
       THEN /\ timers' = Finished(timers, t)
            /\ schedules' = Canon(schedules, timers')
            /\ UNCHANGED <<lockHolder, devices>>
       ELSE /\ timers' = [timers EXCEPT ![t].st = "running", ![t].raises = ~ok]
            /\ lockHolder' = HolderDuringCallback(t)
            /\ devices' = locked
            /\ UNCHANGED schedules
    /\ UNCHANGED <<now, file, running, loader, orphan, stopped, removed, missed, ops, ticks>>

\* _execute_schedule with an injected lock_callback that leaves the host's
\* devices alone
ExecBegin(t, ok) == ExecBeginWith(t, ok, devices)

\* core.lock_keyboard / core.lock_mouse as called by main.lock_devices_by_type:
\* stop_keyboard() when keyboard_locked, else start_keyboard()
LockDevicesByType(dev, action) ==
    [keyboard |-> IF action \in {"keyboard", "both"} THEN ~dev.keyboard ELSE dev.keyboard,
     mouse |-> IF action \in {"mouse", "both"} THEN ~dev.mouse ELSE dev.mouse]

\* main.unlock_all_devices
UnlockAllDevices(dev) == Unlocked

\* _execute_schedule with the host's lock_callback, main.lock_devices_by_type,
\* which catches every exception
HostExecBegin(t) ==
    ExecBeginWith(t, TRUE, LockDevicesByType(devices, schedules[timers[t].sid].action))

\* _execute_schedule: 'once' and 'countdown' are disabled after execution
OneShot(s) == s.time_type = "once" \/ s.time_type = "countdown"

\* _execute_schedule: whether an unlock timer is scheduled
HasDuration(s) == s.duration # NoDuration

\* _execute_schedule after lock_callback returned: the timers afterwards
FireTimers(tm, sid, s, n) ==
    LET tm1 == IF HasDuration(s)
               THEN (NextHandle(tm) :> NewTimer(sid, "unlock", n + s.duration)) @@ tm
               ELSE tm
        s1 == IF HasDuration(s) THEN [s EXCEPT !.unlock_timer = NextHandle(tm)] ELSE s
    IN  IF OneShot(s1) THEN tm1 ELSE ArmTimers(tm1, sid, s1, n)

\* _execute_schedule after lock_callback returned: the Schedule object afterwards
FireSchedule(tm, sid, s, n) ==
    LET tm1 == IF HasDuration(s)
               THEN (NextHandle(tm) :> NewTimer(sid, "unlock", n + s.duration)) @@ tm
               ELSE tm
        s1 == IF HasDuration(s) THEN [s EXCEPT !.unlock_timer = NextHandle(tm)] ELSE s
    IN  IF OneShot(s1) THEN [s1 EXCEPT !.enabled = FALSE] ELSE ArmSchedule(tm1, s1, n)

\* _execute_schedule: enough handles for the timers the call creates
CanFire(tm, s, n) ==
    /\ HasDuration(s) => FreeHandles(tm) # {}
    /\ ~OneShot(s) =>
          CanArm(IF HasDuration(s) THEN (NextHandle(tm) :> NewTimer(0, "unlock", 0)) @@ tm
                 ELSE tm, s, n)

\* _execute_schedule, the except branch: lock_callback raised
FailTimers(tm, sid, s, n) == ArmTimers(tm, sid, s, n)
FailSchedule(tm, sid, s, n) == ArmSchedule(tm, s, n)

\* the Schedule object of the lock holder
Held(sid) == IF orphan # << >> THEN orphan[1] ELSE schedules[sid]

\* the table once the lock holder's object has become s
WithHeld(sid, s) == IF orphan # << >> THEN schedules ELSE [schedules EXCEPT ![sid] = s]

\* _execute_schedule from the return of lock_callback or its exception, the
\* _save_schedules of the retire step succeeding or not
ExecFinishIO(t, saved) ==
    /\ t \in DOMAIN timers
    /\ timers[t].kind = "lock"
    /\ timers[t].st = "running"
    /\ LET sid == timers[t].sid
           s == Held(sid)
           ok == ~timers[t].raises
       IN  /\ IF ok THEN CanFire(timers, s, now) ELSE CanArm(timers, s, now)
           /\ timers' = Finished(IF ok THEN FireTimers(timers, sid, s, now)
                                 ELSE FailTimers(timers, sid, s, now), t)
           /\ schedules' = Canon(WithHeld(sid, IF ok THEN FireSchedule(timers, sid, s, now)
                                               ELSE FailSchedule(timers, sid, s, now)),
                                 timers')
           /\ file' = IF ok /\ OneShot(s) THEN Written(schedules', saved) ELSE file
           /\ missed' = IF ~ok /\ orphan = << >> THEN MissedAfter(missed, sid, s, now)
                         ELSE missed
    /\ lockHolder' = None
    /\ orphan' = << >>
    /\ UNCHANGED <<devices, now, running, loader, stopped, removed, ops, ticks>>

\* _execute_schedule from the return of lock_callback or its exception
ExecFinish(t) == ExecFinishIO(t, TRUE)

\* _execute_unlock up to the call of unlock_callback, which will return (ok)
\* or raise (~ok)
UnlockBeginWith(t, ok, unlocked) ==
    /\ t \in DOMAIN timers
    /\ timers[t].kind = "unlock"
    /\ timers[t].st = "elapsed"
    /\ lockHolder = None
    /\ IF timers[t].sid \notin DOMAIN schedules
       THEN /\ timers' = Finished(timers, t)
            /\ schedules' = Canon(schedules, timers')
            /\ UNCHANGED <<lockHolder, devices>>
       ELSE /\ timers' = [timers EXCEPT ![t].st = "running", ![t].raises = ~ok]
            /\ lockHolder' = HolderDuringCallback(t)
            /\ devices' = unlocked
            /\ UNCHANGED schedules
    /\ UNCHANGED <<now, file, running, loader, orphan, stopped, removed, missed, ops, ticks>>

\* _execute_unlock with an injected unlock_callback that leaves the host's
\* devices alone
UnlockBegin(t, ok) == UnlockBeginWith(t, ok, devices)

\* _execute_unlock with the host's unlock_callback, main.unlock_all_devices
HostUnlockBegin(t) == UnlockBeginWith(t, TRUE, UnlockAllDevices(devices))

\* _execute_unlock: the Schedule object after unlock_callback returned (ok) or raised
UnlockSchedule(s, ok) == IF ok THEN [s EXCEPT !.unlock_timer = None] ELSE s

\* _execute_unlock from the return of unlock_callback or its exception
UnlockFinish(t) ==
    /\ t \in DOMAIN timers
    /\ timers[t].kind = "unlock"
    /\ timers[t].st = "running"
    /\ timers' = Finished(timers, t)
    /\ schedules' = Canon(WithHeld(timers[t].sid, UnlockSchedule(Held(timers[t].sid), ~timers[t].raises)),
                          timers')
    /\ lockHolder' = None
    /\ orphan' = << >>
    /\ UNCHANGED <<devices, now, file, running, loader, stopped, removed, missed, ops, ticks>>

\* -------------------------------------------------------------------- clock
ArmedDeadlines == {timers[h].deadline : h \in {x \in DOMAIN timers : timers[x].st = "armed"}}

\* The clock moves on by a second or to the next deadline; an armed timer
\* elapses when its deadline is reached.
Advance ==
    /\ ticks < MaxTicks
    /\ \A d \in ArmedDeadlines : d > now
    /\ \E n \in {now + 1} \cup (IF ArmedDeadlines = {} THEN {} ELSE {MinOf(ArmedDeadlines)}) :
          /\ \A d \in ArmedDeadlines : n <= d
          /\ now' = n
    /\ ticks' = ticks + 1
    /\ UNCHANGED <<devices, schedules, timers, file, running, loader, lockHolder, orphan,
                   stopped, removed, missed, ops>>

Next ==
    \/ Start
    \/ Stop
    \/ \E sid \in Ids : \E d \in InputsFor(sid) : AddSchedule(sid, d)
    \/ \E sid \in Ids : \E d \in InputsFor(sid) : UpdateSchedule(sid, d)
    \/ \E sid \in Ids : RemoveSchedule(sid)
    \/ LoaderRead
    \/ LoaderInsert
    \/ LoaderArm
    \/ LoaderExit
    \/ \E t \in Handles : Elapse(t)
    \/ \E t \in Handles, ok \in BOOLEAN : ExecBegin(t, ok)
    \/ \E t \in Handles : ExecFinish(t)
    \/ \E t \in Handles, ok \in BOOLEAN : UnlockBegin(t, ok)
    \/ \E t \in Handles : UnlockFinish(t)
    \/ Advance

Spec == Init /\ [][Next]_vars

\* ------------------------------------------- the calculator on its own
\* The scheduler thread has loaded one schedule and is about to arm it: every
\* weekday and the instants around the anchor, for every kind of schedule.
CalcTods == {0, AnchorTod - 1, AnchorTod, AnchorTod + 1, SecondsPerDay - 1}
CalcNows == {Combine(d, t) : d \in 0..(DaysPerWeek - 1), t \in CalcTods}
CalcAnchors == {0, AnchorTod, SecondsPerDay - 1}
CalcDaySets == SUBSET (0..(DaysPerWeek - 1)) \ {{}}
CalcDefinitions ==
    {NewSchedule(nm, a, "countdown", IntAnchor(CountdownSecs), {}, NoDuration, TRUE) :
        nm \in Names, a \in ActionKinds}
    \cup {NewSchedule(nm, a, "once", DateTimeAnchor(OnceAt), {}, NoDuration, TRUE) :
        nm \in Names, a \in ActionKinds}
    \cup {NewSchedule("focus", "both", k, TimeAnchor(t), {}, NoDuration, TRUE) :
        k \in {"daily", "weekdays", "weekends"}, t \in CalcAnchors}
    \cup {NewSchedule("focus", "both", "weekly", TimeAnchor(t), ds, NoDuration, TRUE) :
        t \in CalcAnchors, ds \in CalcDaySets}

CalcInit ==
    /\ now \in CalcNows
    /\ schedules \in {(1 :> d) : d \in CalcDefinitions}
    /\ timers = EmptyTable
    /\ file = << >>
    /\ running = TRUE
    /\ loader = [NoLoader EXCEPT !.pc = "arm", !.iterSize = 1]
    /\ lockHolder = None
    /\ orphan = << >>
    /\ stopped = FALSE
    /\ removed = {}
    /\ missed = {}
    /\ devices = Unlocked
    /\ ops = 0
    /\ ticks = 0

CalcNext == LoaderArm

SpecCalc == CalcInit /\ [][CalcNext]_vars

\* ------------------------------------------------ save and load on their own
\* Either a table of well-typed schedules that has not been saved yet, or a
\* new manager beside a file that holds two records, each well-formed or not.
CodecTods == {0, 3723, AnchorTod, SecondsPerDay - 1}
CodecDurations == {NoDuration, ShortDuration}
CodecDefinitions ==
    {NewSchedule("focus", "both", "countdown", IntAnchor(CountdownSecs), {}, du, en) :
        du \in CodecDurations, en \in BOOLEAN}
    \cup {NewSchedule("focus", "both", "once", DateTimeAnchor(Combine(InitDay, t)), {}, du, en) :
        t \in CodecTods, du \in CodecDurations, en \in BOOLEAN}
    \cup {NewSchedule("focus", "both", k, TimeAnchor(t), {}, du, en) :
        k \in {"daily", "weekdays", "weekends"}, t \in CodecTods,
        du \in CodecDurations, en \in BOOLEAN}
    \cup {NewSchedule("focus", "both", "weekly", TimeAnchor(t), ds, du, en) :
        t \in CodecTods, ds \in {{0}, {1, 3}, {0, 5, 6}},
        du \in CodecDurations, en \in BOOLEAN}
CodecTables ==
    {(1 :> d) : d \in CodecDefinitions}
    \cup {(1 :> d) @@ (2 :> e) :
            d \in CodecDefinitions, e \in {x \in CodecDefinitions : x.time_type = "countdown"}}

\* a record whose start_time is not text that from_dict can parse
Malformed(d) == [d EXCEPT !.start_time = [fmt |-> "text", f |-> << >>]]
CodecRecords ==
    {ToDict(d) : d \in Definitions} \cup {Malformed(ToDict(d)) : d \in Definitions}
CodecFiles == {<<(1 :> r) @@ (2 :> q)>> : r \in CodecRecords, q \in CodecRecords}

CodecInit ==
    /\ now = InitNow
    /\ \/ schedules \in CodecTables /\ file = << >>
       \/ schedules = EmptyTable /\ file \in CodecFiles
    /\ timers = EmptyTable
    /\ running = FALSE
    /\ loader = NoLoader
    /\ lockHolder = None
    /\ orphan = << >>
    /\ stopped = FALSE
    /\ removed = {}
    /\ missed = {}
    /\ devices = Unlocked
    /\ ops = 0
    /\ ticks = 0

\* _save_schedules, called on a table that has not been saved
SaveSchedules ==
    /\ loader.pc = "none"
    /\ file = << >>
    /\ file' = Save(schedules)
    /\ UNCHANGED <<devices, now, schedules, timers, running, loader, lockHolder, orphan,
                   stopped, removed, missed, ops, ticks>>

CodecNext ==
    \/ SaveSchedules
    \/ Start
    \/ LoaderRead
    \/ LoaderInsert

SpecCodec == CodecInit /\ [][CodecNext]_vars

\* ------------------------------------------- a caller that uses get_schedule
\* get_schedule: the value returned is the Schedule object the table holds
\* (no copy is made), so a write to it is a write to the table's object.
WriteEnabled(table, sid, en) == [table EXCEPT ![sid].enabled = en]

\* the caller sets enabled on the value get_schedule(sid) returned; the lock
\* is not taken
SetEnabledOnReturned(sid, en) ==
    /\ ops < MaxOps
    /\ ops' = ops + 1
    /\ sid \in DOMAIN schedules
    /\ schedules' = WriteEnabled(schedules, sid, en)
    /\ UNCHANGED <<devices, now, timers, file, running, loader, lockHolder, orphan,
                   stopped, removed, missed, ticks>>

HostNext ==
    \/ \E sid \in Ids : \E d \in InputsFor(sid) : AddSchedule(sid, d)
    \/ \E sid \in Ids, en \in BOOLEAN : SetEnabledOnReturned(sid, en)
    \/ \E t \in Handles : Elapse(t)
    \/ \E t \in Handles : HostExecBegin(t)
    \/ \E t \in Handles : ExecFinish(t)
    \/ \E t \in Handles : HostUnlockBegin(t)
    \/ \E t \in Handles : UnlockFinish(t)
    \/ Advance

SpecHost == Init /\ [][HostNext]_vars

\* ------------------------------------------ a file that cannot always be written
\* The API calls and the timer callbacks, each _save_schedules succeeding or
\* failing; no scheduler thread.
SaveNext ==
    \/ \E sid \in Ids, saved \in BOOLEAN : \E d \in InputsFor(sid) : AddScheduleIO(sid, d, saved)
    \/ \E sid \in Ids, saved \in BOOLEAN : \E d \in InputsFor(sid) : UpdateScheduleIO(sid, d, saved)
    \/ \E sid \in Ids, saved \in BOOLEAN : RemoveScheduleIO(sid, saved)
    \/ \E t \in Handles : Elapse(t)
    \/ \E t \in Handles, ok \in BOOLEAN : ExecBegin(t, ok)
    \/ \E t \in Handles, saved \in BOOLEAN : ExecFinishIO(t, saved)
    \/ \E t \in Handles, ok \in BOOLEAN : UnlockBegin(t, ok)
    \/ \E t \in Handles : UnlockFinish(t)
    \/ Advance

SpecSave == Init /\ [][SaveNext]_vars

\* ------------------------------------------------------------------ claims
Live == DOMAIN timers
Outstanding(sid, kind) ==
    {h \in Live : timers[h].sid = sid /\ timers[h].kind = kind /\ timers[h].st = "armed"}
InCallback(h) == h \in Live /\ timers[h].st = "running"
\* the step in which the callback of timer h returns and its thread finishes
Finishes(h) == InCallback(h) /\ h \notin DOMAIN timers'
NewTimers(sid, kind) ==
    {h \in DOMAIN timers' \ DOMAIN timers :
        timers'[h].sid = sid /\ timers'[h].kind = kind /\ timers'[h].st = "armed"}

\* C1: for every schedule id, in every reachable state, at most one armed
\* lock-timer is outstanding (arming cancels the previous timer first).
C1_AtMostOneLockTimer == \A sid \in Ids : Cardinality(Outstanding(sid, "lock")) <= 1

\* C2: for every schedule id, in every reachable state, at most one armed
\* unlock-timer is outstanding, also when the schedule fires again before the
\* unlock timer of its previous fire has elapsed.
C2_AtMostOneUnlockTimer == \A sid \in Ids : Cardinality(Outstanding(sid, "unlock")) <= 1

\* C3: when the lock callback raises, the fire sequence still arms the unlock
\* timer for duration seconds (when duration is set) and still retires a
\* one-shot schedule or re-arms a recurring one.
C3_LockErrorContinues ==
    [][\A t \in Handles :
        (Finishes(t) /\ timers[t].kind = "lock" /\ timers[t].raises /\ orphan = << >>) =>
            LET sid == timers[t].sid
                s == schedules[sid]
            IN  /\ HasDuration(s) =>
                     \E h \in NewTimers(sid, "unlock") :
                        timers'[h].deadline = now + s.duration
                /\ OneShot(s) => ~schedules'[sid].enabled /\ NewTimers(sid, "lock") = {}
                /\ ~OneShot(s) => NewTimers(sid, "lock") # {}]_vars

\* C4 as stated: a callback is invoked while the manager lock is not held by
\* the invoking timer thread.
C4_CallbackWithoutLock == \A h \in Handles : InCallback(h) => lockHolder # h

\* C4 as amended: the lock and unlock callbacks are invoked while the invoking
\* timer thread holds the manager lock, so that no other lock-taking operation
\* runs for the duration of a callback.
C4_CallbackHoldsLock == \A h \in Handles : InCallback(h) => lockHolder = h

C4_Witness ==
    \E h \in Handles, g \in Handles :
        /\ InCallback(h) /\ lockHolder = h
        /\ g \in Live /\ g # h /\ timers[g].st = "elapsed"

\* C5: the table and the timer handles are only touched under the manager
\* lock: while a timer callback holds the lock, no other thread changes the
\* table.
C5_ExclusiveTable ==
    [][(lockHolder # None /\ lockHolder' = lockHolder) => schedules' = schedules]_vars

\* C6: after stop() has returned, no timer is outstanding and no callback that
\* was in flight invokes lock or unlock.
C6_StopQuiesces ==
    stopped => \A h \in Live : timers[h].st # "armed" /\ timers[h].st # "running"

\* C7: after a successful update_schedule, lock is invoked for the id only by
\* a lock-timer armed from the new definition, never by a timer of the replaced
\* one (one that had elapsed and was waiting for the manager lock included).
C7_ReplacedTimerInert ==
    \A h \in Live : (InCallback(h) /\ timers[h].kind = "lock") => ~timers[h].replaced

\* C8: lock is never invoked for an id after remove_schedule has returned
\* success for it (and the id was not added again).
C8_NoLockAfterRemove ==
    \A h \in Live : (InCallback(h) /\ timers[h].kind = "lock") => timers[h].sid \notin removed

\* C9: when the lock-timer of an enabled 'once' or 'countdown' schedule fires,
\* the schedule is afterwards disabled, still in the table, not re-armed, and
\* the file records it as disabled.
C9_OneShotRetires ==
    [][\A t \in Handles :
        (/\ Finishes(t) /\ timers[t].kind = "lock" /\ orphan = << >>
         /\ schedules[timers[t].sid].timer = t
         /\ OneShot(schedules[timers[t].sid])) =>
            LET sid == timers[t].sid
            IN  /\ sid \in DOMAIN schedules'
                /\ ~schedules'[sid].enabled
                /\ NewTimers(sid, "lock") = {}
                /\ file' # << >>
                /\ sid \in DOMAIN file'[1]
                /\ ~file'[1][sid].enabled]_vars

AllowedDay(s, day) ==
    IF s.time_type = "weekdays" THEN day < 5
    ELSE IF s.time_type = "weekends" THEN day >= 5
    ELSE IF s.time_type = "weekly" THEN day \in s.days
    ELSE TRUE

\* C10: when the lock-timer of an enabled daily, weekdays, weekends or weekly
\* schedule (the timer held in schedule.timer) fires, whether lock_callback
\* returns or raises, the schedule stays enabled and exactly one new lock-timer is
\* armed, for a later instant with the anchor's time-of-day on an allowed day
\* (for daily, the first such instant: at most 24 hours later).
C10_RecurringRearms ==
    [][\A t \in Handles :
        (/\ Finishes(t) /\ timers[t].kind = "lock" /\ orphan = << >>
         /\ schedules[timers[t].sid].timer = t
         /\ ~OneShot(schedules[timers[t].sid])) =>
            LET sid == timers[t].sid
                s == schedules[sid]
            IN  /\ sid \in DOMAIN schedules'
                /\ schedules'[sid].enabled
                /\ Cardinality(NewTimers(sid, "lock")) = 1
                /\ \A h \in NewTimers(sid, "lock") :
                      /\ schedules'[sid].timer = h
                      /\ timers'[h].deadline > now
                      /\ TimeOf(timers'[h].deadline) = s.start_time.v
                      /\ AllowedDay(s, Weekday(timers'[h].deadline))
                      /\ s.time_type = "daily" =>
                            timers'[h].deadline - now <= SecondsPerDay]_vars

C10_Witness ==
    \E sid \in DOMAIN schedules :
        /\ schedules[sid].time_type = "daily"
        /\ schedules[sid].enabled
        /\ schedules[sid].timer \in Live
        /\ timers[schedules[sid].timer].st = "armed"
        /\ timers[schedules[sid].timer].deadline = OnceAt + SecondsPerDay
        /\ schedules[sid].unlock_timer \in Live
        /\ timers[schedules[sid].unlock_timer].deadline = OnceAt + LongDuration

\* C11: when the lock-timer of a schedule fires (the timer held in
\* schedule.timer), a schedule with a duration gets exactly one unlock timer,
\* due duration seconds after the lock invocation has ended, a schedule without
\* a duration gets none, and unlock is never invoked before its timer is due.
C11_UnlockAfterDuration ==
    [][/\ \A t \in Handles :
            (/\ Finishes(t) /\ timers[t].kind = "lock" /\ orphan = << >>
             /\ schedules[timers[t].sid].timer = t) =>
                LET sid == timers[t].sid
                    s == schedules[sid]
                IN  /\ HasDuration(s) =>
                         /\ Cardinality(NewTimers(sid, "unlock")) = 1
                         /\ \A h \in NewTimers(sid, "unlock") :
                               timers'[h].deadline = now + s.duration
                    /\ ~HasDuration(s) => NewTimers(sid, "unlock") = {}
       /\ \A h \in Handles :
            (/\ h \in Live /\ timers[h].kind = "unlock" /\ timers[h].st = "elapsed"
             /\ h \in DOMAIN timers' /\ timers'[h].st = "running") =>
                timers[h].deadline <= now]_vars

\* C12: add_schedule on an id already in the table, and update_schedule or
\* remove_schedule on an id not in the table, return False and leave the table,
\* every schedule's fields, every timer and the file as they were.
C12_FailedCallsChangeNothing ==
    [][\A sid \in Ids :
        /\ \A d \in InputsFor(sid) :
              (AddSchedule(sid, d) /\ sid \in DOMAIN schedules) =>
                  ~AddReturns(sid) /\ UNCHANGED <<schedules, timers, file>>
        /\ \A d \in InputsFor(sid) :
              (UpdateSchedule(sid, d) /\ sid \notin DOMAIN schedules) =>
                  ~UpdateReturns(sid) /\ UNCHANGED <<schedules, timers, file>>
        /\ (RemoveSchedule(sid) /\ sid \notin DOMAIN schedules) =>
              ~RemoveReturns(sid) /\ UNCHANGED <<schedules, timers, file>>]_vars

\* three calls have been made, each an update or a remove of an id that is not
\* in the table
C12_Witness ==
    /\ ops = MaxOps
    /\ schedules = EmptyTable
    /\ timers = EmptyTable
    /\ file = << >>
    /\ removed = {}
    /\ ~stopped
    /\ loader.pc = "none"

\* the construction invariants of a Schedule: the anchor variant matches the
\* kind, a weekly schedule names at least one day, a duration is positive
ValidSchedule(s) ==
    /\ s.time_type = "countdown" => s.start_time.tag = "int"
    /\ s.time_type = "once" => s.start_time.tag = "datetime"
    /\ s.time_type \in {"daily", "weekdays", "weekends", "weekly"} => s.start_time.tag = "time"
    /\ s.time_type = "weekly" => s.days # {}
    /\ HasDuration(s) => s.duration > 0

\* C13: a schedule that violates a construction invariant (here a weekly
\* schedule with an empty day set) is rejected and never enters the table.
C13_OnlyValidSchedules == \A sid \in DOMAIN schedules : ValidSchedule(schedules[sid])

\* C16: once _schedule_next_run has found a 'once' schedule past its anchor and
\* disabled it, lock is never invoked for that schedule.
C16_MissedOnceNeverFires ==
    \A h \in Live :
        (InCallback(h) /\ timers[h].kind = "lock") =>
            ~(timers[h].sid \in missed /\ Held(timers[h].sid).time_type = "once")

\* C19: start() while self.running is set is a no-op: no scheduler thread is
\* launched that would load the file, replace entries and arm timers again.
C19_StartIdempotent ==
    [][(Start /\ running) => UNCHANGED <<loader, schedules, timers, file>>]_vars

\* the schedule of id sid has been armed by the scheduler thread
Armed(sid) == sid \in DOMAIN schedules /\ sid \in loader.visited

\* C14: for every daily, weekdays or weekends schedule and every current time,
\* arming starts a timer with a strictly positive delay whose instant has
\* exactly the anchor's time of day and falls on a day the kind allows.
C14_NextInstantAllowed ==
    \A sid \in Ids :
        (Armed(sid) /\ schedules[sid].time_type \in {"daily", "weekdays", "weekends"}) =>
            LET s == schedules[sid]
            IN  /\ s.timer \in Live
                /\ timers[s.timer].deadline - now > 0
                /\ TimeOf(timers[s.timer].deadline) = s.start_time.v
                /\ AllowedDay(s, Weekday(timers[s.timer].deadline))

\* a weekdays schedule armed on a Friday after its anchor is due on Monday
C14_Witness ==
    /\ Armed(1)
    /\ schedules[1].time_type = "weekdays"
    /\ Weekday(now) = 4
    /\ TimeOf(now) > schedules[1].start_time.v
    /\ schedules[1].timer \in Live
    /\ timers[schedules[1].timer].deadline = Combine(DateOf(now) + 3, schedules[1].start_time.v)

\* the day offset C15 describes: to the smallest day of the set strictly after
\* today, else to the smallest day of the set in the next week
TargetOffset(days, today) ==
    IF \E d \in days : d > today
    THEN MinOf({d \in days : d > today}) - today
    ELSE DaysPerWeek - today + MinOf(days)

Persisted(s) ==
    [name |-> s.name, action |-> s.action, time_type |-> s.time_type,
     start_time |-> s.start_time, days |-> s.days, duration |-> s.duration,
     enabled |-> s.enabled]

\* C17: loading the file that _save_schedules wrote from the table reproduces
\* the table: every record is accepted, and the schedule built from it has the
\* name, action, kind, anchor, days, duration and enabled flag of the schedule
\* it was saved from, an absent duration staying absent.
C17_SaveLoadRoundTrip ==
    [][(LoaderInsert /\ file = Save(schedules) /\ loader.pending # EmptyTable) =>
          /\ DOMAIN schedules' = DOMAIN schedules
          /\ \A sid \in DOMAIN schedules :
                Persisted(schedules'[sid]) = Persisted(schedules[sid])
          /\ \E sid \in DOMAIN loader.pending :
                /\ loader'.pending = Restrict(loader.pending, DOMAIN loader.pending \ {sid})
                /\ schedules'[sid] = FromDict(file[1][sid])]_vars

\* a saved table of two schedules, the first weekly on three days without a
\* duration, has been loaded back completely
C17_Witness ==
    /\ file = Save(schedules)
    /\ loader.pc = "arm"
    /\ DOMAIN schedules = {1, 2}
    /\ schedules[1].time_type = "weekly"
    /\ schedules[1].days = {0, 5, 6}
    /\ schedules[1].start_time = TimeAnchor(3723)
    /\ schedules[1].duration = NoDuration

\* C18: when the load is over, every well-formed record of the file is in the
\* table, whether it stands before or after a malformed one.
C18_SkipsOnlyMalformed ==
    (loader.pc = "arm" /\ file # << >>) =>
        \A sid \in DOMAIN file[1] : FromDictOk(file[1][sid]) => sid \in DOMAIN schedules

\* C20: get_schedule returns a copy: a change the caller makes to a field of
\* the returned value (enabled) does not change the schedule the table holds.
C20_ReturnedCopy ==
    [][\A sid \in Ids, en \in BOOLEAN :
          SetEnabledOnReturned(sid, en) => schedules' = schedules]_vars

\* the armed timers that the handles of schedule s refer to
ArmedOf(s) == {h \in {s.timer, s.unlock_timer} \cap Live : timers[h].st = "armed"}

\* C21: when _save_schedules fails, add_schedule, update_schedule and
\* remove_schedule still return True with the table updated and the timers
\* armed or cancelled, and the retire step of a fire still disables the
\* schedule without re-arming it.
C21_SaveFailureNotFatal ==
    [][/\ \A sid \in Ids :
            /\ \A d \in InputsFor(sid) :
                  (AddScheduleIO(sid, d, FALSE) /\ sid \notin DOMAIN schedules) =>
                      /\ ReturnsAfterSave(FALSE) = "True"
                      /\ sid \in DOMAIN schedules'
                      /\ schedules'[sid].time_type = d.time_type
                      /\ StartsTimer(d, now) =>
                            /\ schedules'[sid].timer \in DOMAIN timers'
                            /\ timers'[schedules'[sid].timer].st = "armed"
            /\ \A d \in InputsFor(sid) :
                  (UpdateScheduleIO(sid, d, FALSE) /\ sid \in DOMAIN schedules) =>
                      /\ ReturnsAfterSave(FALSE) = "True"
                      /\ schedules'[sid].time_type = d.time_type
                      /\ \A h \in ArmedOf(schedules[sid]) :
                            h \in DOMAIN timers' => ~timers'[h].replaced
                      /\ StartsTimer(d, now) =>
                            /\ schedules'[sid].timer \in DOMAIN timers'
                            /\ timers'[schedules'[sid].timer].st = "armed"
                            /\ ~timers'[schedules'[sid].timer].replaced
            /\ (RemoveScheduleIO(sid, FALSE) /\ sid \in DOMAIN schedules) =>
                  /\ ReturnsAfterSave(FALSE) = "True"
                  /\ sid \notin DOMAIN schedules'
                  /\ \A h \in ArmedOf(schedules[sid]) : h \notin DOMAIN timers'
       /\ \A t \in Handles :
            (/\ ExecFinishIO(t, FALSE) /\ ~timers[t].raises /\ orphan = << >>
             /\ OneShot(schedules[timers[t].sid])) =>
                LET sid == timers[t].sid
                IN  /\ ~schedules'[sid].enabled
                    /\ NewTimers(sid, "lock") = {}
                    /\ HasDuration(schedules[sid]) => NewTimers(sid, "unlock") # {}]_vars

\* a schedule is in the table with its timer armed although no file could be
\* written
C21_Witness ==
    /\ file = << >>
    /\ 1 \in DOMAIN schedules
    /\ schedules[1].timer \in Live
    /\ timers[schedules[1].timer].st = "armed"

\* after the step, the handle in the timer field of schedule sid is an armed
\* lock-timer of the current definition that is due at 'deadline'
ArmedAt(sid, deadline) ==
    /\ sid \in DOMAIN schedules'
    /\ schedules'[sid].timer \in DOMAIN timers'
    /\ timers'[schedules'[sid].timer] = NewTimer(sid, "lock", deadline)

\* C22: every arm request for an enabled countdown schedule (add_schedule,
\* update_schedule, the scheduler thread arming a loaded one) starts a lock-timer
\* due exactly start_time seconds from now, whatever the time and whatever was
\* armed before.
C22_CountdownFullDelay ==
    [][\A sid \in Ids :
        /\ \A d \in InputsFor(sid) :
              (/\ d.time_type = "countdown"
               /\ \/ AddSchedule(sid, d) /\ sid \notin DOMAIN schedules
                  \/ UpdateSchedule(sid, d) /\ sid \in DOMAIN schedules) =>
                  ArmedAt(sid, now + d.start_time.v)
        /\ (/\ LoaderArm
            /\ sid \in loader'.visited \ loader.visited
            /\ schedules[sid].time_type = "countdown"
            /\ schedules[sid].enabled) =>
              ArmedAt(sid, now + schedules[sid].start_time.v)]_vars

\* a countdown armed after the clock has moved on is due a full start_time
\* from now, while an earlier timer of the same id is still armed
C22_Witness ==
    \E sid \in DOMAIN schedules :
        /\ schedules[sid].time_type = "countdown"
        /\ now > InitNow
        /\ schedules[sid].timer \in Live
        /\ timers[schedules[sid].timer] = NewTimer(sid, "lock", now + CountdownSecs)
        /\ \E h \in Outstanding(sid, "lock") : timers[h].deadline < now + CountdownSecs

\* C23: once the lock-timer of a countdown schedule has fired, the manager
\* does not arm a lock-timer for it again, whether lock_callback returned or
\* raised.
C23_CountdownFiresOnce ==
    [][\A t \in Handles :
        (/\ Finishes(t) /\ timers[t].kind = "lock" /\ orphan = << >>
         /\ schedules[timers[t].sid].timer = t
         /\ schedules[timers[t].sid].time_type = "countdown") =>
            NewTimers(timers[t].sid, "lock") = {}]_vars

\* the instant C24 describes: the earliest one strictly after n whose weekday
\* is in days and whose time of day is tod
EarliestWeekly(days, tod, n) ==
    MinOf({x \in {Combine(DateOf(n) + k, tod) : k \in 0..DaysPerWeek} :
              x > n /\ Weekday(x) \in days})

\* C24: a weekly schedule is armed for the earliest instant strictly after now
\* whose weekday is in days and whose time of day is the anchor: today when
\* today is in days and the anchor is still ahead.
C24_WeeklyEarliest ==
    \A sid \in Ids :
        (Armed(sid) /\ schedules[sid].time_type = "weekly" /\ schedules[sid].days # {}) =>
            /\ schedules[sid].timer \in Live
            /\ timers[schedules[sid].timer].deadline =
                  EarliestWeekly(schedules[sid].days, schedules[sid].start_time.v, now)

\* C25: when the callback of a lock-timer finds its id missing from the table
\* or its schedule disabled, it ends at once: lock_callback is not called, no
\* timer is started, no other timer, no schedule field and no file changes.
C25_SkippedCallbackInert ==
    [][\A t \in Handles :
        (/\ t \in Live /\ timers[t].kind = "lock" /\ timers[t].st = "elapsed"
         /\ \/ timers[t].sid \notin DOMAIN schedules
            \/ ~schedules[timers[t].sid].enabled
         /\ ExecBegin(t, TRUE) \/ ExecBegin(t, FALSE)) =>
            /\ DOMAIN timers' = DOMAIN timers \ {t}
            /\ \A h \in DOMAIN timers' : timers'[h] = timers[h]
            /\ lockHolder' = None
            /\ DOMAIN schedules' = DOMAIN schedules
            /\ \A sid \in DOMAIN schedules :
                  Persisted(schedules'[sid]) = Persisted(schedules[sid])
            /\ UNCHANGED <<file, devices>>]_vars

\* the thread of an elapsed lock-timer is about to find its schedule disabled
C25_Witness ==
    \E t \in Live :
        /\ timers[t].kind = "lock" /\ timers[t].st = "elapsed"
        /\ lockHolder = None
        /\ timers[t].sid \in DOMAIN schedules
        /\ ~schedules[timers[t].sid].enabled

\* C27: an armed unlock timer stays until it elapses: update_schedule,
\* remove_schedule and stop never leave a running lock period without its
\* unlock timer.
C27_UnlockTimerKept ==
    [][\A h \in Handles :
        (h \in Live /\ timers[h].kind = "unlock" /\ timers[h].st = "armed") =>
            (h \in DOMAIN timers' /\ timers'[h].kind = "unlock")]_vars

\* C28: after the host's lock callback has run for a schedule, the devices its
\* action names are locked, whatever their state before.
C28_FireLeavesLocked ==
    [][\A t \in Handles :
        (HostExecBegin(t) /\ ~ExecSkips(t)) =>
            LET action == schedules[timers[t].sid].action
            IN  /\ action \in {"keyboard", "both"} => devices'.keyboard
                /\ action \in {"mouse", "both"} => devices'.mouse]_vars

\* C29: whenever _schedule_next_run finds a 'once' schedule past and disables
\* it, the file afterwards records the schedule as disabled.
C29_ArmDisablePersisted ==
    [][\A sid \in Ids :
        (sid \in missed' /\ sid \notin missed) =>
            /\ file' # << >>
            /\ sid \in DOMAIN file'[1]
            /\ ~file'[1][sid].enabled]_vars

\* C30: armed at the very second of its anchor, a daily, weekdays, weekends or
\* weekly schedule gets a timer for a later day, never for now, and a 'once'
\* schedule gets no timer and is disabled.
C30_StrictComparisons ==
    \A sid \in Ids :
        Armed(sid) =>
            LET s == schedules[sid]
            IN  /\ (/\ s.time_type \in {"daily", "weekdays", "weekends", "weekly"}
                    /\ TimeOf(now) = s.start_time.v) =>
                      /\ s.timer \in Live
                      /\ timers[s.timer].deadline >= now + SecondsPerDay
                /\ (s.time_type = "once" /\ now = s.start_time.v) =>
                      /\ ~s.enabled
                      /\ s.timer = None
                      /\ timers = EmptyTable

\* a daily schedule armed at its anchor second is due a day later
C30_Witness ==
    /\ Armed(1)
    /\ schedules[1].time_type = "daily"
    /\ TimeOf(now) = schedules[1].start_time.v
    /\ schedules[1].timer \in Live
    /\ timers[schedules[1].timer].deadline = now + SecondsPerDay

\* start() has armed the table and no call, load or timer callback is in progress
Quiescent ==
    /\ running
    /\ loader.pc = "sleep"
    /\ lockHolder = None
    /\ \A h \in Live : timers[h].st = "armed"

\* C26: once start() has armed the table, and while nothing is in progress,
\* every enabled schedule of the table has an armed lock-timer.
C26_EnabledIsArmed ==
    Quiescent =>
        \A sid \in DOMAIN schedules :
            schedules[sid].enabled => Outstanding(sid, "lock") # {}

\* C31: when the callback of an unlock timer has run for a schedule still in
\* the table, schedule.unlock_timer is None afterwards, whether unlock_callback
\* returned or raised.
C31_UnlockHandleCleared ==
    [][\A t \in Handles :
        (/\ t \in Live /\ timers[t].kind = "unlock" /\ timers[t].st = "running"
         /\ orphan = << >>
         /\ timers[t].sid \in DOMAIN schedules
         /\ UnlockFinish(t)) =>
            schedules'[timers[t].sid].unlock_timer = None]_vars

\* the step is a call of add_schedule, update_schedule or remove_schedule for
\* id sid, or a step of a lock-timer or unlock timer of sid
OpOn(sid) ==
    \/ \E d \in InputsFor(sid) : AddSchedule(sid, d) \/ UpdateSchedule(sid, d)
    \/ RemoveSchedule(sid)
    \/ \E t \in Live :
          /\ timers[t].sid = sid
          /\ \/ Elapse(t)
             \/ ExecBegin(t, TRUE) \/ ExecBegin(t, FALSE) \/ ExecFinish(t)
             \/ UnlockBegin(t, TRUE) \/ UnlockBegin(t, FALSE) \/ UnlockFinish(t)

\* the step leaves schedule sid as it is: its fields, its timer handles and
\* every timer started for it
Untouched(sid) ==
    /\ sid \in DOMAIN schedules'
    /\ schedules'[sid] = schedules[sid]
    /\ \A h \in Live : timers[h].sid = sid => (h \in DOMAIN timers' /\ timers'[h] = timers[h])
    /\ \A h \in DOMAIN timers' : timers'[h].sid = sid => h \in Live

\* C32: add_schedule, update_schedule, remove_schedule and the timer callbacks
\* of schedule id X leave every other schedule of the table unchanged: its
\* fields and its outstanding lock-timer and unlock timer.
C32_OtherSchedulesUntouched ==
    [][\A x \in Ids : \A y \in DOMAIN schedules \ {x} : OpOn(x) => Untouched(y)]_vars

\* the lock-timer of schedule 1 is in its callback while schedule 2, armed
\* earlier, still has its own lock-timer outstanding
C32_Witness ==
    /\ {1, 2} \subseteq DOMAIN schedules
    /\ \E t \in Live : timers[t].sid = 1 /\ timers[t].kind = "lock" /\ timers[t].st = "running"
    /\ schedules[2].enabled
    /\ schedules[2].timer \in Outstanding(2, "lock")
    /\ timers[schedules[2].timer].deadline < now + CountdownSecs

====
